---- MODULE Spec2Model ----
(***************************************************************************)
(* Rule-and-procedure evaluation core of konstytucja: the chamber vote     *)
(* actions of chapters IV and V (quorum and majority thresholds) and the   *)
(* precedence-ordered extradition test of Art. 55 (chapter II).            *)
(*                                                                         *)
(* The evaluators are pure functions, modelled as operators.  The state    *)
(* machine is a caller: each action is one call of one evaluator on one    *)
(* argument record: the state holds the arguments, and once the call is    *)
(* made its name and its outcome (the value returned or the error raised). *)
(*                                                                         *)
(* The procedure stage machines (ordinary bill with its override votes,    *)
(* constitutional amendment, government formation) are the one mutable     *)
(* object: a machine holds its current stage and its log of transitions,   *)
(* and each action of ProcedureSpec is one requested transition.           *)
(***************************************************************************)
EXTENDS Integers, Sequences, FiniteSets, TLC

VARIABLES op, args, result, machine

vars == <<op, args, result, machine>>

\* ------------------------------------------------------------------ bounds

\* Vote counts are drawn from 0..MaxVotes and from the landmark counts below.
MaxVotes == 4

\* Explicit statutory memberships are drawn from 1..MaxMembers.
MaxMembers == 6

\* Numbers of eligible voters are drawn from -1..MaxEligible and the
\* landmark below.
MaxEligible == 8

\* ------------------------------------------------------------ common/types

SEJM == "Sejm"

SENATE == "Senat"

Chamber == {SEJM, SENATE}

SIMPLE == "SIMPLE"

ABSOLUTE == "ABSOLUTE"

TWO_THIRDS == "TWO_THIRDS"

THREE_FIFTHS == "THREE_FIFTHS"

MajorityType == {SIMPLE, ABSOLUTE, TWO_THIRDS, THREE_FIFTHS}

\* statutory_members: int | None.  None is the empty tuple, an explicit
\* membership m is the tuple <<m>>.
None == <<>>

\* Landmark counts around the thresholds of the default memberships
\* (Senate 100: quorum 50; Sejm 460: quorum 230, absolute 231,
\* three-fifths 276, two-thirds 307).
LandmarkVotesFor == {49, 50, 51, 229, 230, 231, 275, 276, 306, 307}

LandmarkVotesAgainst == {50, 184, 185}

LandmarkVotesAbstain == {50}

\* The counts of a VoteRecord are plain ints: the dataclass validates
\* nothing, and a count below zero is a value a caller can pass.
VotesForValues == ((-1) .. MaxVotes) \cup LandmarkVotesFor

VotesAgainstValues == ((-1) .. MaxVotes) \cup LandmarkVotesAgainst

VotesAbstainValues == ((-1) .. MaxVotes) \cup LandmarkVotesAbstain

StatutoryMembersValues == {None} \cup {<<m>> : m \in 1 .. MaxMembers}

\* The vote records the caller builds.
VoteRecord ==
    [chamber : Chamber,
     votes_for : VotesForValues,
     votes_against : VotesAgainstValues,
     votes_abstain : VotesAbstainValues,
     statutory_members : StatutoryMembersValues]

total_present_without_abstain(vote) == vote.votes_for + vote.votes_against

total_present(vote) == vote.votes_for + vote.votes_against + vote.votes_abstain

members_default_only(vote) ==
    IF vote.chamber = SEJM THEN 460 ELSE 100

members_sejm_default_for_all(vote) ==
    IF vote.statutory_members # None
    THEN vote.statutory_members[1]
    ELSE 460

members(vote) ==
    IF vote.statutory_members # None
    THEN vote.statutory_members[1]
    ELSE IF vote.chamber = SEJM THEN 460 ELSE 100

\* datetime.date: a calendar date as [year, month, day].
IsLeapYear(year) == (year % 4 = 0 /\ year % 100 # 0) \/ year % 400 = 0

DaysInMonth(year, month) ==
    IF month = 2 THEN (IF IsLeapYear(year) THEN 29 ELSE 28)
    ELSE IF month \in {4, 6, 9, 11} THEN 30
    ELSE 31

\* The days of the year the dates are drawn from, as <<month, day>>: the
\* ends of the year, the days around 29 February, and two days in a row.
LandmarkDays ==
    {<<1, 1>>, <<2, 28>>, <<2, 29>>, <<3, 1>>, <<10, 15>>, <<10, 16>>, <<12, 31>>}

ElectionYears == {2024, 2025}

\* The years in which a candidate who turns 21, 30 or 35 in an election
\* year was born.
BirthYears == {1989, 1990, 1994, 1995, 2003, 2004}

\* The dates of the given years that exist in the calendar.
Dates(years) ==
    {[year |-> y, month |-> md[1], day |-> md[2]] :
        <<y, md>> \in {ymd \in years \X LandmarkDays :
                          ymd[2][2] <= DaysInMonth(ymd[1], ymd[2][1])}}

\* The citizens the caller builds (the name only appears in the message).
Citizen ==
    [date_of_birth : Dates(BirthYears),
     polish_citizen : BOOLEAN,
     criminal_record : BOOLEAN]

\* Citizen.age_at with the birthday itself not yet counted.
age_at_birthday_exclusive(date_of_birth, on_date) ==
    LET age == on_date.year - date_of_birth.year
    IN  IF \/ on_date.month < date_of_birth.month
           \/ (on_date.month = date_of_birth.month /\ on_date.day <= date_of_birth.day)
        THEN age - 1
        ELSE age

\* Citizen.age_at: (on_date.month, on_date.day) < (born.month, born.day)
\* is the comparison of tuples, the month first.
age_at(date_of_birth, on_date) ==
    LET age == on_date.year - date_of_birth.year
    IN  IF \/ on_date.month < date_of_birth.month
           \/ (on_date.month = date_of_birth.month /\ on_date.day < date_of_birth.day)
        THEN age - 1
        ELSE age

\* ------------------------------------------------------------ the outcomes

\* A function that returns True.
ReturnsTrue == [kind |-> "True"]

\* A failed assert statement.
AssertionError == [kind |-> "AssertionError"]

\* The provision identifier the failures of passes_vote carry: the
\* specification requires every failure to carry one and does not say which.
ProvisionOfVote == "provision"

QuorumError == [kind |-> "QuorumError", article |-> ProvisionOfVote]

\* A MajorityError names the majority kind that was required.
MajorityError(majority_type) ==
    [kind |-> "MajorityError", article |-> ProvisionOfVote, majority |-> majority_type]

\* ConstitutionalError.__init__(message, article), for the errors whose
\* message is a fixed text or a "; "-joined list of reasons: reasons is the
\* list of the reasons the message holds, in the message's order.
ConstitutionalError(kind, article, reasons) ==
    [kind |-> kind, article |-> article, reasons |-> reasons]

\* ----------------------------------------------------------- common/voting

quorum_met(vote) == total_present(vote) * 2 >= members(vote)

majority_reached(vote, majority_type) ==
    CASE majority_type = SIMPLE -> vote.votes_for > vote.votes_against
      [] majority_type = ABSOLUTE -> vote.votes_for * 2 > members(vote)
      [] majority_type = TWO_THIRDS -> vote.votes_for * 3 >= members(vote) * 2
      [] majority_type = THREE_FIFTHS -> vote.votes_for * 5 >= members(vote) * 3

passes_vote_majority_first(vote, majority_type) ==
    IF ~majority_reached(vote, majority_type) THEN MajorityError(majority_type)
    ELSE IF ~quorum_met(vote) THEN QuorumError
    ELSE ReturnsTrue

passes_vote(vote, majority_type) ==
    IF ~quorum_met(vote) THEN QuorumError
    ELSE IF ~majority_reached(vote, majority_type) THEN MajorityError(majority_type)
    ELSE ReturnsTrue

\* ------------------------------------------------- chapter_04_sejm_senate

sejm_passes_bill_unchecked(vote) == passes_vote(vote, SIMPLE)

sejm_passes_bill(vote) ==
    IF vote.chamber # SEJM THEN AssertionError
    ELSE passes_vote(vote, SIMPLE)

senate_passes_bill_absolute(vote) ==
    IF vote.chamber # SENATE THEN AssertionError
    ELSE passes_vote(vote, ABSOLUTE)

senate_passes_bill(vote) ==
    IF vote.chamber # SENATE THEN AssertionError
    ELSE passes_vote(vote, SIMPLE)

sejm_overrides_senate_simple(vote) ==
    IF vote.chamber # SEJM THEN AssertionError
    ELSE passes_vote(vote, SIMPLE)

sejm_overrides_senate(vote) ==
    IF vote.chamber # SEJM THEN AssertionError
    ELSE passes_vote(vote, ABSOLUTE)

\* An eligibility error: one reason is the text of the condition and the
\* numbers its message holds.
Reason(text, values) == [text |-> text, values |-> values]

EligibilityError(article, reasons) ==
    ConstitutionalError("EligibilityError", article, reasons)

NotCitizenReason == Reason("must be a Polish citizen", <<>>)

TooYoungReason(minimum, age) == Reason("must be at least (is)", <<minimum, age>>)

ConvictedReason ==
    Reason("convicted by final judgment for an intentional crime prosecuted ex officio", <<>>)

\* The errors list of check_sejm_eligibility.
sejm_errors(citizen, election_date) ==
    (IF ~citizen.polish_citizen THEN <<NotCitizenReason>> ELSE <<>>)
        \o (IF age_at(citizen.date_of_birth, election_date) < 21
            THEN <<TooYoungReason(21, age_at(citizen.date_of_birth, election_date))>>
            ELSE <<>>)
        \o (IF citizen.criminal_record THEN <<ConvictedReason>> ELSE <<>>)

check_sejm_eligibility(citizen, election_date) ==
    IF sejm_errors(citizen, election_date) # <<>>
    THEN EligibilityError("99(1)", sejm_errors(citizen, election_date))
    ELSE ReturnsTrue

senate_errors_first_only(citizen, election_date) ==
    IF ~citizen.polish_citizen THEN <<NotCitizenReason>>
    ELSE IF age_at(citizen.date_of_birth, election_date) < 30
    THEN <<TooYoungReason(30, age_at(citizen.date_of_birth, election_date))>>
    ELSE IF citizen.criminal_record THEN <<ConvictedReason>>
    ELSE <<>>

\* The errors list of check_senate_eligibility.
senate_errors(citizen, election_date) ==
    (IF ~citizen.polish_citizen THEN <<NotCitizenReason>> ELSE <<>>)
        \o (IF age_at(citizen.date_of_birth, election_date) < 30
            THEN <<TooYoungReason(30, age_at(citizen.date_of_birth, election_date))>>
            ELSE <<>>)
        \o (IF citizen.criminal_record THEN <<ConvictedReason>> ELSE <<>>)

check_senate_eligibility(citizen, election_date) ==
    IF senate_errors(citizen, election_date) # <<>>
    THEN EligibilityError("99(2)", senate_errors(citizen, election_date))
    ELSE ReturnsTrue

ReferendumError(article, reasons) ==
    ConstitutionalError("ReferendumError", article, reasons)

NotPositiveReason == "Number of eligible voters must be positive."

NotBindingReason == "Referendum not binding: turnout does not exceed 50%."

RejectedReason == "Referendum rejected"

\* The votes and the eligible voters of a referendum: small numbers, and
\* the numbers around a turnout of half of 1,000,000.
ReferendumVotesValues == (0 .. MaxVotes) \cup {200000, 300000, 300001}

EligibleVotersValues == ((-1) .. MaxEligible) \cup {1000000}

validate_referendum_half_is_binding(votes_for, votes_against, eligible_voters) ==
    IF eligible_voters <= 0 THEN ReferendumError("125", <<NotPositiveReason>>)
    ELSE IF (votes_for + votes_against) * 2 < eligible_voters
    THEN ReferendumError("125(3)", <<NotBindingReason>>)
    ELSE IF votes_for <= votes_against
    THEN ReferendumError("125", <<RejectedReason>>)
    ELSE ReturnsTrue

validate_referendum_rejected_first(votes_for, votes_against, eligible_voters) ==
    IF eligible_voters <= 0 THEN ReferendumError("125", <<NotPositiveReason>>)
    ELSE IF votes_for <= votes_against
    THEN ReferendumError("125", <<RejectedReason>>)
    ELSE IF (votes_for + votes_against) * 2 <= eligible_voters
    THEN ReferendumError("125(3)", <<NotBindingReason>>)
    ELSE ReturnsTrue

validate_referendum(votes_for, votes_against, eligible_voters) ==
    IF eligible_voters <= 0 THEN ReferendumError("125", <<NotPositiveReason>>)
    ELSE IF (votes_for + votes_against) * 2 <= eligible_voters
    THEN ReferendumError("125(3)", <<NotBindingReason>>)
    ELSE IF votes_for <= votes_against
    THEN ReferendumError("125", <<RejectedReason>>)
    ELSE ReturnsTrue

\* ---------------------------------------------------- chapter_05_president

sejm_overrides_veto_two_thirds(vote) ==
    IF vote.chamber # SEJM THEN AssertionError
    ELSE passes_vote(vote, TWO_THIRDS)

sejm_overrides_veto(vote) ==
    IF vote.chamber # SEJM THEN AssertionError
    ELSE passes_vote(vote, THREE_FIFTHS)

MIN_SIGNATURES == 100000

\* The numbers of signatures the caller passes (0 is the default).
SignaturesValues == {0, MIN_SIGNATURES - 1, MIN_SIGNATURES}

NoElectoralRightsReason ==
    Reason("lacks full electoral rights: convicted by final judgment", <<>>)

TooFewSignaturesReason(signatures) ==
    Reason("needs at least signatures (has)", <<MIN_SIGNATURES, signatures>>)

presidential_errors_signatures_exclusive(citizen, election_date, signatures) ==
    (IF ~citizen.polish_citizen THEN <<NotCitizenReason>> ELSE <<>>)
        \o (IF age_at(citizen.date_of_birth, election_date) < 35
            THEN <<TooYoungReason(35, age_at(citizen.date_of_birth, election_date))>>
            ELSE <<>>)
        \o (IF citizen.criminal_record THEN <<NoElectoralRightsReason>> ELSE <<>>)
        \o (IF signatures <= MIN_SIGNATURES
            THEN <<TooFewSignaturesReason(signatures)>>
            ELSE <<>>)

\* The errors list of check_presidential_eligibility.
presidential_errors(citizen, election_date, signatures) ==
    (IF ~citizen.polish_citizen THEN <<NotCitizenReason>> ELSE <<>>)
        \o (IF age_at(citizen.date_of_birth, election_date) < 35
            THEN <<TooYoungReason(35, age_at(citizen.date_of_birth, election_date))>>
            ELSE <<>>)
        \o (IF citizen.criminal_record THEN <<NoElectoralRightsReason>> ELSE <<>>)
        \o (IF signatures < MIN_SIGNATURES
            THEN <<TooFewSignaturesReason(signatures)>>
            ELSE <<>>)

check_presidential_eligibility(citizen, election_date, signatures) ==
    IF presidential_errors(citizen, election_date, signatures) # <<>>
    THEN EligibilityError("127(3)",
                          presidential_errors(citizen, election_date, signatures))
    ELSE ReturnsTrue

\* -------------------------------------------------------- chapter_02_rights

\* The fields of an ExtraditionRequest that validate_extradition reads
\* (requesting_state_or_body is never read).
ExtraditionRequest ==
    [subject_is_polish_citizen : BOOLEAN,
     political_nonviolent_offense : BOOLEAN,
     violates_human_rights : BOOLEAN,
     court_approved : BOOLEAN,
     international_judicial_body : BOOLEAN,
     based_on_ratified_treaty : BOOLEAN,
     genocide_or_war_crime : BOOLEAN,
     act_committed_abroad : BOOLEAN,
     double_criminality : BOOLEAN]

ExtraditionError_without_article(article, reasons) ==
    ConstitutionalError("ExtraditionError", "", reasons)

ExtraditionError(article, reasons) ==
    ConstitutionalError("ExtraditionError", article, reasons)

\* The reasons of the messages, by the words that tell them apart.
PoliticalOffenceReason == "concerns a nonviolent political offence"

HumanRightsReason == "would violate human rights and freedoms"

CourtReason == "court has not ruled on admissibility"

ActAbroadReason == "act was not committed outside Polish territory (Art. 55(2)(1))"

DoubleCriminalityReason == "act does not constitute an offence under Polish law (Art. 55(2)(2))"

DefaultProhibitionReason == "Extradition of a Polish citizen is prohibited"

\* Art. 55(3): the condition of the international tribunal exception.
tribunal_exception_without_treaty(request) ==
    /\ request.international_judicial_body
    /\ request.genocide_or_war_crime

tribunal_exception(request) ==
    /\ request.international_judicial_body
    /\ request.based_on_ratified_treaty
    /\ request.genocide_or_war_crime

\* Art. 55(2): the failures list of the treaty tier.
treaty_failures_first_only(request) ==
    IF ~request.act_committed_abroad THEN <<ActAbroadReason>>
    ELSE IF ~request.double_criminality THEN <<DoubleCriminalityReason>>
    ELSE <<>>

treaty_failures(request) ==
    (IF ~request.act_committed_abroad THEN <<ActAbroadReason>> ELSE <<>>)
        \o (IF ~request.double_criminality THEN <<DoubleCriminalityReason>> ELSE <<>>)

\* Art. 55(3), 55(2), 55(1) with the treaty conditions applied to every
\* request, treaty or not.
extradition_of_citizen_treaty_optional(request) ==
    IF tribunal_exception(request) THEN ReturnsTrue
    ELSE IF treaty_failures(request) # <<>>
    THEN ExtraditionError("55(2)", treaty_failures(request))
    ELSE IF request.based_on_ratified_treaty THEN ReturnsTrue
    ELSE ExtraditionError("55(1)", <<DefaultProhibitionReason>>)

\* Art. 55(3), 55(2), 55(1): the rules for a Polish citizen.
extradition_of_citizen(request) ==
    IF tribunal_exception(request) THEN ReturnsTrue
    ELSE IF request.based_on_ratified_treaty
    THEN IF treaty_failures(request) # <<>>
         THEN ExtraditionError("55(2)", treaty_failures(request))
         ELSE ReturnsTrue
    ELSE ExtraditionError("55(1)", <<DefaultProhibitionReason>>)

\* Art. 55(5) and the exit of non-citizens, then the rules for a citizen.
extradition_citizenship_before_court(request) ==
    IF ~request.subject_is_polish_citizen THEN ReturnsTrue
    ELSE IF ~request.court_approved THEN ExtraditionError("55(5)", <<CourtReason>>)
    ELSE extradition_of_citizen(request)

extradition_without_non_citizen_exit(request) ==
    IF ~request.court_approved THEN ExtraditionError("55(5)", <<CourtReason>>)
    ELSE extradition_of_citizen(request)

extradition_after_prohibitions(request) ==
    IF ~request.court_approved THEN ExtraditionError("55(5)", <<CourtReason>>)
    ELSE IF ~request.subject_is_polish_citizen THEN ReturnsTrue
    ELSE extradition_of_citizen(request)

validate_extradition_court_first(request) ==
    IF ~request.court_approved THEN ExtraditionError("55(5)", <<CourtReason>>)
    ELSE IF request.political_nonviolent_offense
    THEN ExtraditionError("55(4)", <<PoliticalOffenceReason>>)
    ELSE IF request.violates_human_rights
    THEN ExtraditionError("55(4)", <<HumanRightsReason>>)
    ELSE extradition_after_prohibitions(request)

validate_extradition_human_rights_first(request) ==
    IF request.violates_human_rights
    THEN ExtraditionError("55(4)", <<HumanRightsReason>>)
    ELSE IF request.political_nonviolent_offense
    THEN ExtraditionError("55(4)", <<PoliticalOffenceReason>>)
    ELSE extradition_after_prohibitions(request)

validate_extradition(request) ==
    IF request.political_nonviolent_offense
    THEN ExtraditionError("55(4)", <<PoliticalOffenceReason>>)
    ELSE IF request.violates_human_rights
    THEN ExtraditionError("55(4)", <<HumanRightsReason>>)
    ELSE extradition_after_prohibitions(request)

\* Art. 31(3): the five conditions of a RightsRestriction (its description
\* only appears in the message).
RightsRestriction ==
    [by_statute : BOOLEAN,
     necessary_in_democratic_state : BOOLEAN,
     legitimate_aim : BOOLEAN,
     proportionate : BOOLEAN,
     preserves_essence : BOOLEAN]

NotByStatuteReason == "not established by statute (ustawa)"

NotNecessaryReason == "not necessary in a democratic state"

NoLegitimateAimReason == "does not pursue a legitimate aim"

NotProportionateReason == "not proportionate to the aim pursued"

ViolatesEssenceReason == "violates the essence of the freedom or right"

\* One failures.append: the reason when the condition is false.
Appended(failed, reason) == IF failed THEN <<reason>> ELSE <<>>

restriction_failures_first_only(restriction) ==
    IF ~restriction.by_statute THEN <<NotByStatuteReason>>
    ELSE IF ~restriction.necessary_in_democratic_state THEN <<NotNecessaryReason>>
    ELSE IF ~restriction.legitimate_aim THEN <<NoLegitimateAimReason>>
    ELSE IF ~restriction.proportionate THEN <<NotProportionateReason>>
    ELSE IF ~restriction.preserves_essence THEN <<ViolatesEssenceReason>>
    ELSE <<>>

restriction_failures(restriction) ==
    Appended(~restriction.by_statute, NotByStatuteReason)
        \o Appended(~restriction.necessary_in_democratic_state, NotNecessaryReason)
        \o Appended(~restriction.legitimate_aim, NoLegitimateAimReason)
        \o Appended(~restriction.proportionate, NotProportionateReason)
        \o Appended(~restriction.preserves_essence, ViolatesEssenceReason)

validate_rights_restriction(restriction) ==
    IF restriction_failures(restriction) # <<>>
    THEN ConstitutionalError("RightsRestrictionError", "31(3)",
                             restriction_failures(restriction))
    ELSE ReturnsTrue

\* ------------------------------------------------------------- the caller

NoCall == "none"

\* No procedure is in flight while the evaluators are called on their own.
NoMachine == [procedure |-> "none"]

\* The argument records a caller can build, one per call.
VoteArgs == {[vote |-> vote] : vote \in VoteRecord}

ExtraditionArgs == {[request |-> request] : request \in ExtraditionRequest}

HasVote == "vote" \in DOMAIN args

HasRequest == "request" \in DOMAIN args

RestrictionArgs ==
    {[restriction |-> restriction] : restriction \in RightsRestriction}

HasRestriction == "restriction" \in DOMAIN args

EligibilityArgs ==
    [citizen : Citizen, election_date : Dates(ElectionYears)]

HasCandidate == DOMAIN args = {"citizen", "election_date"}

PresidentialArgs ==
    [citizen : Citizen, election_date : Dates(ElectionYears),
     signatures : SignaturesValues]

HasPresidentialCandidate == DOMAIN args = {"citizen", "election_date", "signatures"}

ReferendumArgs ==
    [votes_for : ReferendumVotesValues, votes_against : ReferendumVotesValues,
     eligible_voters : EligibleVotersValues]

HasReferendum == "eligible_voters" \in DOMAIN args

Init ==
    /\ op = NoCall
    /\ args \in VoteArgs \cup ExtraditionArgs \cup RestrictionArgs
                  \cup EligibilityArgs \cup PresidentialArgs \cup ReferendumArgs
    /\ result = [kind |-> "none"]
    /\ machine = NoMachine

SejmPassesBill ==
    /\ op = NoCall
    /\ HasVote
    /\ op' = "sejm_passes_bill"
    /\ result' = sejm_passes_bill(args.vote)
    /\ UNCHANGED <<args, machine>>

SenatePassesBill ==
    /\ op = NoCall
    /\ HasVote
    /\ op' = "senate_passes_bill"
    /\ result' = senate_passes_bill(args.vote)
    /\ UNCHANGED <<args, machine>>

SejmOverridesSenate ==
    /\ op = NoCall
    /\ HasVote
    /\ op' = "sejm_overrides_senate"
    /\ result' = sejm_overrides_senate(args.vote)
    /\ UNCHANGED <<args, machine>>

SejmOverridesVeto ==
    /\ op = NoCall
    /\ HasVote
    /\ op' = "sejm_overrides_veto"
    /\ result' = sejm_overrides_veto(args.vote)
    /\ UNCHANGED <<args, machine>>

PassesVote ==
    /\ op = NoCall
    /\ HasVote
    /\ \E majority_type \in MajorityType :
        /\ op' = "passes_vote"
        /\ args' = [vote |-> args.vote, majority_type |-> majority_type]
        /\ result' = passes_vote(args.vote, majority_type)
    /\ UNCHANGED machine

\* A read of the VoteRecord.members property.
Members ==
    /\ op = NoCall
    /\ HasVote
    /\ op' = "members"
    /\ result' = [kind |-> "int", value |-> members(args.vote)]
    /\ UNCHANGED <<args, machine>>

ValidateExtradition ==
    /\ op = NoCall
    /\ HasRequest
    /\ op' = "validate_extradition"
    /\ result' = validate_extradition(args.request)
    /\ UNCHANGED <<args, machine>>

ValidateRightsRestriction ==
    /\ op = NoCall
    /\ HasRestriction
    /\ op' = "validate_rights_restriction"
    /\ result' = validate_rights_restriction(args.restriction)
    /\ UNCHANGED <<args, machine>>

CheckSejmEligibility ==
    /\ op = NoCall
    /\ HasCandidate
    /\ op' = "check_sejm_eligibility"
    /\ result' = check_sejm_eligibility(args.citizen, args.election_date)
    /\ UNCHANGED <<args, machine>>

CheckSenateEligibility ==
    /\ op = NoCall
    /\ HasCandidate
    /\ op' = "check_senate_eligibility"
    /\ result' = check_senate_eligibility(args.citizen, args.election_date)
    /\ UNCHANGED <<args, machine>>

CheckPresidentialEligibility ==
    /\ op = NoCall
    /\ HasPresidentialCandidate
    /\ op' = "check_presidential_eligibility"
    /\ result' = check_presidential_eligibility(args.citizen, args.election_date,
                                                args.signatures)
    /\ UNCHANGED <<args, machine>>

ValidateReferendum ==
    /\ op = NoCall
    /\ HasReferendum
    /\ op' = "validate_referendum"
    /\ result' = validate_referendum(args.votes_for, args.votes_against,
                                     args.eligible_voters)
    /\ UNCHANGED <<args, machine>>

Next ==
    \/ SejmPassesBill
    \/ SenatePassesBill
    \/ SejmOverridesSenate
    \/ SejmOverridesVeto
    \/ PassesVote
    \/ ValidateExtradition
    \/ ValidateRightsRestriction
    \/ CheckSejmEligibility
    \/ CheckSenateEligibility
    \/ CheckPresidentialEligibility
    \/ ValidateReferendum
    \/ Members

Spec == Init /\ [][Next]_vars

\* ------------------------------------------------------- procedure stages

Procedures == {"bill", "amendment", "government"}

BillStage ==
    {"INITIATED", "SEJM_DELIBERATION", "SEJM_PASSED", "SENATE_DELIBERATION",
     "SENATE_PASSED", "SENATE_AMENDED", "SENATE_REJECTED", "SEJM_OVERRIDE_VOTE",
     "PRESIDENT_REVIEW", "SIGNED", "VETOED", "VETO_OVERRIDE_VOTE",
     "VETO_OVERRIDDEN", "REFERRED_TO_TRIBUNAL", "PARTIALLY_UNCONSTITUTIONAL",
     "ENACTED", "REJECTED"}

AmendmentStage ==
    {"INITIATED", "FIRST_READING_SEJM", "SEJM_PASSED", "SENATE_PASSED",
     "REFERENDUM_REQUESTED", "REFERENDUM_PASSED", "PRESIDENT_SIGNS", "ADOPTED",
     "REJECTED"}

GovernmentFormationStage ==
    {"PRESIDENT_DESIGNATES", "CONFIDENCE_VOTE", "SEJM_ELECTS",
     "PRESIDENT_APPOINTS_RETRY", "APPOINTED", "FAILED"}

StagesOf(procedure) ==
    CASE procedure = "bill" -> BillStage
      [] procedure = "amendment" -> AmendmentStage
      [] procedure = "government" -> GovernmentFormationStage

TerminalStages == {"ENACTED", "REJECTED", "ADOPTED", "APPOINTED", "FAILED"}

\* GovernmentFormationStage has no INITIATED member: its first member is
\* PRESIDENT_DESIGNATES.
InitialStage_amendment_at_first_reading(procedure) ==
    CASE procedure = "bill" -> "INITIATED"
      [] procedure = "amendment" -> "FIRST_READING_SEJM"
      [] procedure = "government" -> "PRESIDENT_DESIGNATES"

InitialStage(procedure) ==
    IF procedure = "government" THEN "PRESIDENT_DESIGNATES" ELSE "INITIATED"

\* A machine owns its current stage and the log of its transitions.
NewMachine(procedure) ==
    [procedure |-> procedure, stage |-> InitialStage(procedure), log |-> <<>>]

\* ------------------------------------------------------ transition inputs

\* The decisions of the external actors.
DecisionValues ==
    {"yes", "no", "passed", "amended", "rejected", "sign", "veto", "refer",
     "referendum", "constitutional", "unconstitutional",
     "partially_unconstitutional"}

Decision(value) == [kind |-> "decision", value |-> value]

\* The tallies put to the vote in a procedure: a chamber of MaxMembers
\* members, without abstentions.
ProcedureVoteRecord ==
    [chamber : Chamber,
     votes_for : 0 .. MaxVotes,
     votes_against : 0 .. MaxVotes,
     votes_abstain : {0},
     statutory_members : {<<MaxMembers>>}]

\* The Vote Evaluator of a chamber action: the chamber is validated, then the
\* Threshold Calculator decides.
VoteEvaluator(chamber, majority_type, vote) ==
    IF vote.chamber # chamber THEN AssertionError
    ELSE passes_vote(vote, majority_type)

\* A Vote Evaluator result, with the evaluator that produced it.
VoteResult(chamber, majority_type, vote) ==
    [kind |-> "vote", chamber |-> chamber, majority |-> majority_type,
     vote |-> vote, outcome |-> VoteEvaluator(chamber, majority_type, vote)]

InputName(input) == IF input.kind = "decision" THEN input.value ELSE "vote"

\* --------------------------------------------------------- stage machines

Invalid == "INVALID"

\* A stage gated by the decision of an external actor.
DecisionGate(input, value, next) ==
    IF input.kind = "decision" /\ input.value = value THEN next ELSE Invalid

\* A stage gated by the vote of a chamber with a majority kind.
VoteGate(input, chamber, majority_type, on_pass, on_fail) ==
    IF input.kind = "vote" /\ input.chamber = chamber /\ input.majority = majority_type
    THEN (IF input.outcome = ReturnsTrue THEN on_pass ELSE on_fail)
    ELSE Invalid

\* A stage gated by a vote whose evaluator the specification does not name.
AnyVoteGate(input, on_pass, on_fail) ==
    IF input.kind = "vote"
    THEN (IF input.outcome = ReturnsTrue THEN on_pass ELSE on_fail)
    ELSE Invalid

\* The first stage, among candidates, that the gates lead to.
FirstValid(candidates) ==
    IF \E i \in 1 .. Len(candidates) : candidates[i] # Invalid
    THEN candidates[CHOOSE i \in 1 .. Len(candidates) :
                        /\ candidates[i] # Invalid
                        /\ \A j \in 1 .. (i - 1) : candidates[j] = Invalid]
    ELSE Invalid

\* Government formation, Art. 154-155: the President designates, then up to
\* three votes of the Sejm by simple majority.
government_next_two_votes(stage, input) ==
    CASE stage = "PRESIDENT_DESIGNATES" -> DecisionGate(input, "yes", "CONFIDENCE_VOTE")
      [] stage = "CONFIDENCE_VOTE" ->
            VoteGate(input, SEJM, SIMPLE, "APPOINTED", "SEJM_ELECTS")
      [] stage = "SEJM_ELECTS" ->
            VoteGate(input, SEJM, SIMPLE, "APPOINTED", "FAILED")
      [] stage = "PRESIDENT_APPOINTS_RETRY" ->
            VoteGate(input, SEJM, SIMPLE, "APPOINTED", "FAILED")
      [] OTHER -> Invalid

government_next(stage, input) ==
    CASE stage = "PRESIDENT_DESIGNATES" -> DecisionGate(input, "yes", "CONFIDENCE_VOTE")
      [] stage = "CONFIDENCE_VOTE" ->
            VoteGate(input, SEJM, SIMPLE, "APPOINTED", "SEJM_ELECTS")
      [] stage = "SEJM_ELECTS" ->
            VoteGate(input, SEJM, SIMPLE, "APPOINTED", "PRESIDENT_APPOINTS_RETRY")
      [] stage = "PRESIDENT_APPOINTS_RETRY" ->
            VoteGate(input, SEJM, SIMPLE, "APPOINTED", "FAILED")
      [] OTHER -> Invalid

\* Constitutional amendment, Art. 235.
amendment_next(stage, input) ==
    CASE stage = "INITIATED" -> DecisionGate(input, "yes", "FIRST_READING_SEJM")
      [] stage = "FIRST_READING_SEJM" -> AnyVoteGate(input, "SEJM_PASSED", "REJECTED")
      [] stage = "SEJM_PASSED" -> AnyVoteGate(input, "SENATE_PASSED", "REJECTED")
      [] stage = "SENATE_PASSED" ->
            FirstValid(<<DecisionGate(input, "referendum", "REFERENDUM_REQUESTED"),
                         DecisionGate(input, "yes", "PRESIDENT_SIGNS")>>)
      [] stage = "REFERENDUM_REQUESTED" ->
            FirstValid(<<DecisionGate(input, "passed", "REFERENDUM_PASSED"),
                         DecisionGate(input, "rejected", "REJECTED")>>)
      [] stage = "REFERENDUM_PASSED" -> DecisionGate(input, "yes", "PRESIDENT_SIGNS")
      [] stage = "PRESIDENT_SIGNS" -> DecisionGate(input, "sign", "ADOPTED")
      [] OTHER -> Invalid

\* The stage a failed override vote of the Sejm leads to: the resolution of
\* the Senate stands (its rejection ends the bill, its amendments go on).
AfterFailedOverride(log) ==
    IF Len(log) > 0 /\ log[Len(log)][1] = "SENATE_REJECTED"
    THEN "REJECTED"
    ELSE "PRESIDENT_REVIEW"

\* Ordinary bill, Art. 118-122, with the override votes of Art. 121(3) and
\* Art. 122(5).
bill_next_simple_override(stage, input, log) ==
    CASE stage = "INITIATED" -> DecisionGate(input, "yes", "SEJM_DELIBERATION")
      [] stage = "SEJM_DELIBERATION" ->
            VoteGate(input, SEJM, SIMPLE, "SEJM_PASSED", "REJECTED")
      [] stage = "SEJM_PASSED" -> DecisionGate(input, "yes", "SENATE_DELIBERATION")
      [] stage = "SENATE_DELIBERATION" ->
            FirstValid(<<DecisionGate(input, "passed", "SENATE_PASSED"),
                         DecisionGate(input, "amended", "SENATE_AMENDED"),
                         DecisionGate(input, "rejected", "SENATE_REJECTED")>>)
      [] stage = "SENATE_PASSED" -> DecisionGate(input, "yes", "PRESIDENT_REVIEW")
      [] stage \in {"SENATE_AMENDED", "SENATE_REJECTED"} ->
            DecisionGate(input, "yes", "SEJM_OVERRIDE_VOTE")
      [] stage = "SEJM_OVERRIDE_VOTE" ->
            VoteGate(input, SEJM, SIMPLE, "PRESIDENT_REVIEW", AfterFailedOverride(log))
      [] stage = "PRESIDENT_REVIEW" ->
            FirstValid(<<DecisionGate(input, "sign", "SIGNED"),
                         DecisionGate(input, "veto", "VETOED"),
                         DecisionGate(input, "refer", "REFERRED_TO_TRIBUNAL")>>)
      [] stage = "SIGNED" -> DecisionGate(input, "yes", "ENACTED")
      [] stage = "VETOED" -> DecisionGate(input, "yes", "VETO_OVERRIDE_VOTE")
      [] stage = "VETO_OVERRIDE_VOTE" ->
            VoteGate(input, SEJM, SIMPLE, "VETO_OVERRIDDEN", "REJECTED")
      [] stage = "VETO_OVERRIDDEN" -> DecisionGate(input, "yes", "ENACTED")
      [] stage = "REFERRED_TO_TRIBUNAL" ->
            FirstValid(<<DecisionGate(input, "constitutional", "SIGNED"),
                         DecisionGate(input, "unconstitutional", "REJECTED"),
                         DecisionGate(input, "partially_unconstitutional",
                                      "PARTIALLY_UNCONSTITUTIONAL")>>)
      [] OTHER -> Invalid

bill_next(stage, input, log) ==
    CASE stage = "INITIATED" -> DecisionGate(input, "yes", "SEJM_DELIBERATION")
      [] stage = "SEJM_DELIBERATION" ->
            VoteGate(input, SEJM, SIMPLE, "SEJM_PASSED", "REJECTED")
      [] stage = "SEJM_PASSED" -> DecisionGate(input, "yes", "SENATE_DELIBERATION")
      [] stage = "SENATE_DELIBERATION" ->
            FirstValid(<<DecisionGate(input, "passed", "SENATE_PASSED"),
                         DecisionGate(input, "amended", "SENATE_AMENDED"),
                         DecisionGate(input, "rejected", "SENATE_REJECTED")>>)
      [] stage = "SENATE_PASSED" -> DecisionGate(input, "yes", "PRESIDENT_REVIEW")
      [] stage \in {"SENATE_AMENDED", "SENATE_REJECTED"} ->
            DecisionGate(input, "yes", "SEJM_OVERRIDE_VOTE")
      [] stage = "SEJM_OVERRIDE_VOTE" ->
            VoteGate(input, SEJM, ABSOLUTE, "PRESIDENT_REVIEW", AfterFailedOverride(log))
      [] stage = "PRESIDENT_REVIEW" ->
            FirstValid(<<DecisionGate(input, "sign", "SIGNED"),
                         DecisionGate(input, "veto", "VETOED"),
                         DecisionGate(input, "refer", "REFERRED_TO_TRIBUNAL")>>)
      [] stage = "SIGNED" -> DecisionGate(input, "yes", "ENACTED")
      [] stage = "VETOED" -> DecisionGate(input, "yes", "VETO_OVERRIDE_VOTE")
      [] stage = "VETO_OVERRIDE_VOTE" ->
            VoteGate(input, SEJM, THREE_FIFTHS, "VETO_OVERRIDDEN", "REJECTED")
      [] stage = "VETO_OVERRIDDEN" -> DecisionGate(input, "yes", "ENACTED")
      [] stage = "REFERRED_TO_TRIBUNAL" ->
            FirstValid(<<DecisionGate(input, "constitutional", "SIGNED"),
                         DecisionGate(input, "unconstitutional", "REJECTED"),
                         DecisionGate(input, "partially_unconstitutional",
                                      "PARTIALLY_UNCONSTITUTIONAL")>>)
      [] OTHER -> Invalid

next_stage(m, input) ==
    CASE m.procedure = "bill" -> bill_next(m.stage, input, m.log)
      [] m.procedure = "amendment" -> amendment_next(m.stage, input)
      [] m.procedure = "government" -> government_next(m.stage, input)

\* The error class and the provision of a procedure's failed transitions.
ProcedureErrorKind(procedure) ==
    CASE procedure = "bill" -> "LegislativeProcessError"
      [] procedure = "amendment" -> "AmendmentError"
      [] procedure = "government" -> "GovernmentFormationError"

ProcedureProvision(procedure) ==
    CASE procedure = "bill" -> "118-122"
      [] procedure = "amendment" -> "235"
      [] procedure = "government" -> "154-155"

\* The failure of a requested transition names the provision and the
\* offending transition: the stage and the input it was requested with.
ProcedureError(m, input) ==
    ConstitutionalError(ProcedureErrorKind(m.procedure),
                        ProcedureProvision(m.procedure),
                        <<m.stage, InputName(input)>>)

Advanced(m, next) ==
    [machine |-> [m EXCEPT !.stage = next, !.log = Append(@, <<m.stage, next>>)],
     result |-> [kind |-> "stage", stage |-> next]]

transition_terminal_unchecked(m, input) ==
    IF input.kind = "vote" /\ input.outcome = AssertionError
    THEN [machine |-> m, result |-> AssertionError]
    ELSE IF next_stage(m, input) = Invalid
    THEN [machine |-> m, result |-> ProcedureError(m, input)]
    ELSE Advanced(m, next_stage(m, input))

transition_logs_failure(m, input) ==
    IF m.stage \in TerminalStages
    THEN [machine |-> m, result |-> AssertionError]
    ELSE IF input.kind = "vote" /\ input.outcome = AssertionError
    THEN [machine |-> m, result |-> AssertionError]
    ELSE IF next_stage(m, input) = Invalid
    THEN [machine |-> [m EXCEPT !.log = Append(@, <<m.stage, Invalid>>)],
          result |-> ProcedureError(m, input)]
    ELSE Advanced(m, next_stage(m, input))

\* One requested transition: the machine as it is afterwards, and the stage
\* returned or the error raised.
transition(m, input) ==
    IF m.stage \in TerminalStages
    THEN [machine |-> m, result |-> AssertionError]
    ELSE IF input.kind = "vote" /\ input.outcome = AssertionError
    THEN [machine |-> m, result |-> AssertionError]
    ELSE IF next_stage(m, input) = Invalid
    THEN [machine |-> m, result |-> ProcedureError(m, input)]
    ELSE Advanced(m, next_stage(m, input))

\* ------------------------------------------------- the procedure's caller

ProcedureInit ==
    /\ op = NoCall
    /\ args = [kind |-> "none"]
    /\ result = [kind |-> "none"]
    /\ machine \in {NewMachine(procedure) : procedure \in Procedures}

\* A transition requested with the decision of an external actor.
RequestDecision ==
    \E value \in DecisionValues :
        /\ op' = "transition"
        /\ args' = Decision(value)
        /\ result' = transition(machine, Decision(value)).result
        /\ machine' = transition(machine, Decision(value)).machine

\* A transition requested with the result of a chamber vote.
RequestVote ==
    \E chamber \in Chamber, majority_type \in MajorityType, vote \in ProcedureVoteRecord :
        /\ op' = "transition"
        /\ args' = VoteResult(chamber, majority_type, vote)
        /\ result' = transition(machine, VoteResult(chamber, majority_type, vote)).result
        /\ machine' = transition(machine, VoteResult(chamber, majority_type, vote)).machine

ProcedureNext ==
    \/ RequestDecision
    \/ RequestVote

ProcedureSpec == ProcedureInit /\ [][ProcedureNext]_vars


\* ----------------------------------------------------- chamber vote claims

ChamberVoteOps ==
    {"sejm_passes_bill", "senate_passes_bill", "sejm_overrides_senate",
     "sejm_overrides_veto"}

\* The chamber whose tally the action expects.
ExpectedChamber(action) == IF action = "senate_passes_bill" THEN SENATE ELSE SEJM

\* A chamber vote action was called with a tally of its own chamber.
ChamberVoteCalled == op \in ChamberVoteOps /\ args.vote.chamber = ExpectedChamber(op)

\* The statutory membership of a tally, as the claims state it.
StatutoryMembership(vote) ==
    IF vote.statutory_members = None
    THEN (IF vote.chamber = SEJM THEN 460 ELSE 100)
    ELSE vote.statutory_members[1]

\* The quorum formula, as the claims state it.
QuorumFormula(vote) ==
    (vote.votes_for + vote.votes_against + vote.votes_abstain) * 2
        >= StatutoryMembership(vote)

MajorityFormula(vote, majority_type) ==
    CASE majority_type = SIMPLE -> vote.votes_for > vote.votes_against
      [] majority_type = ABSOLUTE -> vote.votes_for * 2 > StatutoryMembership(vote)
      [] majority_type = TWO_THIRDS -> vote.votes_for * 3 >= StatutoryMembership(vote) * 2
      [] majority_type = THREE_FIFTHS -> vote.votes_for * 5 >= StatutoryMembership(vote) * 3

\* The majority kind a call evaluates.
MajorityOfCall ==
    CASE op = "passes_vote" -> args.majority_type
      [] op = "sejm_overrides_senate" -> ABSOLUTE
      [] op = "sejm_overrides_veto" -> THREE_FIFTHS
      [] OTHER -> SIMPLE

\* C2: quorum is evaluated before majority, for every majority kind: a
\* tally that fails quorum is reported as QuorumError, never as
\* MajorityError, also when it fails the required majority formula too.
C2_QuorumBeforeMajority ==
    (ChamberVoteCalled \/ op = "passes_vote") =>
        /\ result.kind = "MajorityError" => QuorumFormula(args.vote)
        /\ (~QuorumFormula(args.vote) /\ ~MajorityFormula(args.vote, MajorityOfCall))
              => result.kind = "QuorumError"

\* A tally failing both quorum and the two-thirds majority reports quorum.
C2_Witness ==
    /\ op = "passes_vote"
    /\ args.majority_type = TWO_THIRDS
    /\ ~QuorumFormula(args.vote)
    /\ ~MajorityFormula(args.vote, TWO_THIRDS)
    /\ result.kind = "QuorumError"

\* C3: sejm_overrides_senate on a Sejm tally that meets quorum succeeds iff
\* votes_for * 2 > statutory membership, and fails with MajorityError
\* otherwise (460 members: 230 for fails, 231 succeeds).
C3_AbsoluteMajority ==
    (op = "sejm_overrides_senate" /\ args.vote.chamber = SEJM
        /\ QuorumFormula(args.vote)) =>
        /\ result = ReturnsTrue
              <=> args.vote.votes_for * 2 > StatutoryMembership(args.vote)
        /\ result # ReturnsTrue => result.kind = "MajorityError"
        /\ (StatutoryMembership(args.vote) = 460 /\ args.vote.votes_for = 230)
              => result.kind = "MajorityError"
        /\ (StatutoryMembership(args.vote) = 460 /\ args.vote.votes_for = 231)
              => result = ReturnsTrue

\* 230 of 460 for, more than half of those present: the override fails
\* with MajorityError.
C3_Witness ==
    /\ op = "sejm_overrides_senate"
    /\ args.vote.chamber = SEJM
    /\ args.vote.statutory_members = None
    /\ args.vote.votes_for = 230
    /\ args.vote.votes_for > args.vote.votes_against + args.vote.votes_abstain
    /\ result.kind = "MajorityError"

C5_SimpleMajority ==
    (op \in {"sejm_passes_bill", "senate_passes_bill"} /\ ChamberVoteCalled
        /\ QuorumFormula(args.vote)) =>
        /\ result = ReturnsTrue <=> args.vote.votes_for > args.vote.votes_against
        /\ result # ReturnsTrue => result.kind = "MajorityError"

\* The Senate passes a bill with fewer votes for than half its membership;
\* the abstentions only make the quorum.
C5_Witness ==
    /\ op = "senate_passes_bill"
    /\ args.vote.chamber = SENATE
    /\ args.vote.votes_for > args.vote.votes_against
    /\ args.vote.votes_for * 2 < StatutoryMembership(args.vote)
    /\ args.vote.votes_abstain > 0
    /\ result = ReturnsTrue

ExtraditionCalled == op = "validate_extradition"

\* Neither absolute prohibition of Art. 55(4) applies.
NoAbsoluteProhibition ==
    /\ ~args.request.political_nonviolent_offense
    /\ ~args.request.violates_human_rights

\* C7: a request with political_nonviolent_offense or violates_human_rights
\* always fails with an ExtraditionError under "55(4)", whatever the other
\* fields are.
C7_AbsoluteProhibitionsDominate ==
    (ExtraditionCalled /\ ~NoAbsoluteProhibition) =>
        /\ result.kind = "ExtraditionError"
        /\ result.article = "55(4)"

\* A qualifying tribunal request of a citizen, approved by the court, that
\* violates human rights fails under 55(4).
C7_Witness ==
    /\ ExtraditionCalled
    /\ args.request.violates_human_rights
    /\ ~args.request.political_nonviolent_offense
    /\ args.request.subject_is_polish_citizen
    /\ args.request.court_approved
    /\ args.request.international_judicial_body
    /\ args.request.based_on_ratified_treaty
    /\ args.request.genocide_or_war_crime
    /\ result.kind = "ExtraditionError"
    /\ result.article = "55(4)"

\* C8: with no absolute prohibition and no court approval the request
\* always fails under "55(5)", for citizens and non-citizens alike.
C8_CourtGateBeforeCitizenship ==
    (ExtraditionCalled /\ NoAbsoluteProhibition /\ ~args.request.court_approved) =>
        /\ result.kind = "ExtraditionError"
        /\ result.article = "55(5)"

\* A non-citizen without court approval is refused under 55(5).
C8_Witness ==
    /\ ExtraditionCalled
    /\ NoAbsoluteProhibition
    /\ ~args.request.court_approved
    /\ ~args.request.subject_is_polish_citizen
    /\ result.kind = "ExtraditionError"
    /\ result.article = "55(5)"

\* A citizen's request that passed the prohibitions and the court gate.
CitizenPastCourt ==
    /\ ExtraditionCalled
    /\ NoAbsoluteProhibition
    /\ args.request.court_approved
    /\ args.request.subject_is_polish_citizen

\* C9: for a citizen past the court gate, a request of an international
\* judicial body, based on a ratified treaty, about genocide or war crimes
\* succeeds whatever act_committed_abroad and double_criminality are; with
\* one of the three flags false the outcome is the treaty tier's (success
\* or "55(2)") when there is a treaty, and the default "55(1)" when not.
C9_TribunalException ==
    CitizenPastCourt =>
        IF /\ args.request.international_judicial_body
           /\ args.request.based_on_ratified_treaty
           /\ args.request.genocide_or_war_crime
        THEN result = ReturnsTrue
        ELSE IF args.request.based_on_ratified_treaty
        THEN IF args.request.act_committed_abroad /\ args.request.double_criminality
             THEN result = ReturnsTrue
             ELSE result.kind = "ExtraditionError" /\ result.article = "55(2)"
        ELSE result.kind = "ExtraditionError" /\ result.article = "55(1)"

\* The exception applies although neither treaty condition holds.
C9_Witness ==
    /\ CitizenPastCourt
    /\ args.request.international_judicial_body
    /\ args.request.based_on_ratified_treaty
    /\ args.request.genocide_or_war_crime
    /\ ~args.request.act_committed_abroad
    /\ ~args.request.double_criminality
    /\ result = ReturnsTrue

\* C10: for a citizen past the court gate, with a ratified treaty and no
\* tribunal exception, the request succeeds iff act_committed_abroad and
\* double_criminality both hold; otherwise it fails under "55(2)" with one
\* error listing every missing condition, act-abroad before double
\* criminality.
C10_TreatyTier ==
    (/\ CitizenPastCourt
     /\ args.request.based_on_ratified_treaty
     /\ ~(args.request.international_judicial_body /\ args.request.genocide_or_war_crime)) =>
        IF args.request.act_committed_abroad /\ args.request.double_criminality
        THEN result = ReturnsTrue
        ELSE /\ result.kind = "ExtraditionError"
             /\ result.article = "55(2)"
             /\ result.reasons =
                    CASE ~args.request.act_committed_abroad /\ ~args.request.double_criminality
                            -> <<ActAbroadReason, DoubleCriminalityReason>>
                      [] ~args.request.act_committed_abroad -> <<ActAbroadReason>>
                      [] OTHER -> <<DoubleCriminalityReason>>

\* Both treaty conditions are missing and both are reported, in order.
C10_Witness ==
    /\ CitizenPastCourt
    /\ args.request.based_on_ratified_treaty
    /\ ~args.request.international_judicial_body
    /\ ~args.request.act_committed_abroad
    /\ ~args.request.double_criminality
    /\ result.kind = "ExtraditionError"
    /\ result.article = "55(2)"
    /\ result.reasons = <<ActAbroadReason, DoubleCriminalityReason>>

\* C11: a request about a non-citizen with no absolute prohibition and
\* court approval always succeeds, whatever the treaty, tribunal, crime,
\* act-abroad and double-criminality fields are.
C11_NonCitizenExit ==
    (/\ ExtraditionCalled
     /\ NoAbsoluteProhibition
     /\ args.request.court_approved
     /\ ~args.request.subject_is_polish_citizen) => result = ReturnsTrue

\* A non-citizen is extradited with no treaty basis at all.
C11_Witness ==
    /\ ExtraditionCalled
    /\ NoAbsoluteProhibition
    /\ args.request.court_approved
    /\ ~args.request.subject_is_polish_citizen
    /\ ~args.request.based_on_ratified_treaty
    /\ ~args.request.act_committed_abroad
    /\ ~args.request.double_criminality
    /\ result = ReturnsTrue

\* C12: a request about a citizen with no absolute prohibition, court
\* approval and no ratified-treaty basis always fails under "55(1)", also
\* for a tribunal request about genocide and also when the act was
\* committed abroad and is a crime in Poland.
C12_DefaultProhibition ==
    (CitizenPastCourt /\ ~args.request.based_on_ratified_treaty) =>
        /\ result.kind = "ExtraditionError"
        /\ result.article = "55(1)"
        /\ result.reasons = <<DefaultProhibitionReason>>

\* Every flag but the treaty holds and the request is still refused.
C12_Witness ==
    /\ CitizenPastCourt
    /\ ~args.request.based_on_ratified_treaty
    /\ args.request.international_judicial_body
    /\ args.request.genocide_or_war_crime
    /\ args.request.act_committed_abroad
    /\ args.request.double_criminality
    /\ result.kind = "ExtraditionError"
    /\ result.article = "55(1)"

\* ------------------------------------------------- cumulative-mode claims

\* The reasons of the conditions that are false, in the order of the list
\* of <<holds, reason>> pairs.
RECURSIVE ReasonsOfFalse(_)
ReasonsOfFalse(conditions) ==
    IF conditions = <<>> THEN <<>>
    ELSE (IF conditions[1][1] THEN <<>> ELSE <<conditions[1][2]>>)
            \o ReasonsOfFalse(Tail(conditions))

\* The five conditions of Art. 31(3) in their declaration order.
RestrictionConditions(restriction) ==
    << <<restriction.by_statute, NotByStatuteReason>>,
       <<restriction.necessary_in_democratic_state, NotNecessaryReason>>,
       <<restriction.legitimate_aim, NoLegitimateAimReason>>,
       <<restriction.proportionate, NotProportionateReason>>,
       <<restriction.preserves_essence, ViolatesEssenceReason>> >>

\* C13: validate_rights_restriction succeeds iff all five conditions are
\* true; otherwise it fails with one RightsRestrictionError under "31(3)"
\* whose message holds the descriptions of exactly the false conditions,
\* in declaration order.
C13_RightsRestrictionCumulative ==
    op = "validate_rights_restriction" =>
        LET r == args.restriction
            all == /\ r.by_statute
                   /\ r.necessary_in_democratic_state
                   /\ r.legitimate_aim
                   /\ r.proportionate
                   /\ r.preserves_essence
        IN  /\ result = ReturnsTrue <=> all
            /\ ~all =>
                /\ result.kind = "RightsRestrictionError"
                /\ result.article = "31(3)"
                /\ result.reasons = ReasonsOfFalse(RestrictionConditions(r))

\* A restriction failing the first, third and fifth condition reports the
\* three of them, in that order.
C13_Witness ==
    /\ op = "validate_rights_restriction"
    /\ ~args.restriction.by_statute
    /\ args.restriction.necessary_in_democratic_state
    /\ ~args.restriction.legitimate_aim
    /\ args.restriction.proportionate
    /\ ~args.restriction.preserves_essence
    /\ result.kind = "RightsRestrictionError"
    /\ result.reasons =
          <<NotByStatuteReason, NoLegitimateAimReason, ViolatesEssenceReason>>

\* ------------------------------------------------------ eligibility claims

EligibilityOps ==
    {"check_sejm_eligibility", "check_senate_eligibility",
     "check_presidential_eligibility"}

\* The minimum age of the office the call is about.
MinimumAge ==
    CASE op = "check_sejm_eligibility" -> 21
      [] op = "check_senate_eligibility" -> 30
      [] op = "check_presidential_eligibility" -> 35

\* The candidate's n-th birthday is on or before the date.
HasAttained(date_of_birth, on_date, n) ==
    \/ on_date.year > date_of_birth.year + n
    \/ /\ on_date.year = date_of_birth.year + n
       /\ \/ on_date.month > date_of_birth.month
          \/ (on_date.month = date_of_birth.month /\ on_date.day >= date_of_birth.day)

\* The n-th birthday of a candidate.
Birthday(date_of_birth, n) ==
    [year |-> date_of_birth.year + n, month |-> date_of_birth.month,
     day |-> date_of_birth.day]

\* The day after a date.
NextDay(date) ==
    IF date.day < DaysInMonth(date.year, date.month)
    THEN [date EXCEPT !.day = date.day + 1]
    ELSE IF date.month < 12
    THEN [year |-> date.year, month |-> date.month + 1, day |-> 1]
    ELSE [year |-> date.year + 1, month |-> 1, day |-> 1]

\* The signatures of the call (only the presidency asks for them).
EnoughSignatures ==
    op = "check_presidential_eligibility" => args.signatures >= 100000

\* The texts of the reasons of an error, in the order of its message.
ReasonTexts(error) == [i \in DOMAIN error.reasons |-> error.reasons[i].text]

\* The conditions of the call in their fixed order: citizenship, age,
\* criminal record, then the signatures for the presidency.
EligibilityConditions ==
    << <<args.citizen.polish_citizen, "must be a Polish citizen">>,
       <<HasAttained(args.citizen.date_of_birth, args.election_date, MinimumAge),
         "must be at least (is)">>,
       <<~args.citizen.criminal_record,
         IF op = "check_presidential_eligibility"
         THEN "lacks full electoral rights: convicted by final judgment"
         ELSE "convicted by final judgment for an intentional crime prosecuted ex officio">> >>
      \o (IF op = "check_presidential_eligibility"
          THEN << <<args.signatures >= 100000, "needs at least signatures (has)">> >>
          ELSE <<>>)

\* C14: the three eligibility checks report, in one EligibilityError, every
\* failing condition and only the failing ones, in the order citizenship,
\* age, criminal record, signatures.
C14_EligibilityCumulative ==
    op \in EligibilityOps =>
        IF ReasonsOfFalse(EligibilityConditions) = <<>>
        THEN result = ReturnsTrue
        ELSE /\ result.kind = "EligibilityError"
             /\ ReasonTexts(result) = ReasonsOfFalse(EligibilityConditions)

\* A foreign, too young, convicted candidate for the Senate gets all three
\* reasons.
C14_Witness ==
    /\ op = "check_senate_eligibility"
    /\ ~args.citizen.polish_citizen
    /\ args.citizen.criminal_record
    /\ result.kind = "EligibilityError"
    /\ Len(result.reasons) = 3

\* C15: for a Polish citizen with no criminal record (and enough
\* signatures), a candidate whose 21st, 30th or 35th birthday is the
\* election date is eligible, and one whose birthday is the day after the
\* election date is not.
C15_AgeBoundary ==
    (/\ op \in EligibilityOps
     /\ args.citizen.polish_citizen
     /\ ~args.citizen.criminal_record
     /\ EnoughSignatures) =>
        /\ args.election_date = Birthday(args.citizen.date_of_birth, MinimumAge)
              => result = ReturnsTrue
        /\ NextDay(args.election_date) = Birthday(args.citizen.date_of_birth, MinimumAge)
              => result.kind = "EligibilityError"

\* A candidate for the presidency turns 35 on the election day.
C15_Witness ==
    /\ op = "check_presidential_eligibility"
    /\ args.citizen.polish_citizen
    /\ ~args.citizen.criminal_record
    /\ args.signatures >= 100000
    /\ args.election_date = Birthday(args.citizen.date_of_birth, 35)
    /\ result = ReturnsTrue

\* The other side of the boundary is reached as well: the birthday is the
\* day after the election, across the end of a year or not.
C15_DayAfterReached ==
    /\ op \in EligibilityOps
    /\ args.citizen.polish_citizen
    /\ ~args.citizen.criminal_record
    /\ EnoughSignatures
    /\ NextDay(args.election_date) = Birthday(args.citizen.date_of_birth, MinimumAge)
    /\ result.kind = "EligibilityError"

\* C17: check_presidential_eligibility succeeds iff the candidate is a
\* Polish citizen, is at least 35 on the election date, has no criminal
\* record and has at least 100,000 signatures; every failure is an
\* EligibilityError under "127(3)".
C17_PresidentialEligibility ==
    op = "check_presidential_eligibility" =>
        LET eligible ==
                /\ args.citizen.polish_citizen
                /\ HasAttained(args.citizen.date_of_birth, args.election_date, 35)
                /\ ~args.citizen.criminal_record
                /\ args.signatures >= 100000
        IN  /\ result = ReturnsTrue <=> eligible
            /\ ~eligible =>
                /\ result.kind = "EligibilityError"
                /\ result.article = "127(3)"

\* Exactly 100,000 signatures suffice.
C17_Witness ==
    /\ op = "check_presidential_eligibility"
    /\ args.signatures = 100000
    /\ result = ReturnsTrue

\* With 99,999 signatures an otherwise eligible candidate is refused for
\* the signatures alone.
C17_OneShortReached ==
    /\ op = "check_presidential_eligibility"
    /\ args.signatures = 99999
    /\ result.kind = "EligibilityError"
    /\ result.article = "127(3)"
    /\ ReasonTexts(result) = <<"needs at least signatures (has)">>

\* -------------------------------------------------------- referendum claims

\* C16: validate_referendum succeeds iff eligible_voters > 0,
\* (votes_for + votes_against) * 2 > eligible_voters and
\* votes_for > votes_against; a turnout of exactly half is not binding and
\* a tie fails.
C16_Referendum ==
    op = "validate_referendum" =>
        LET passes ==
                /\ args.eligible_voters > 0
                /\ (args.votes_for + args.votes_against) * 2 > args.eligible_voters
                /\ args.votes_for > args.votes_against
        IN  /\ result = ReturnsTrue <=> passes
            /\ ~passes => result.kind = "ReferendumError"

\* 300,000 for and 200,000 against of 1,000,000 eligible: the turnout is
\* exactly half and the referendum fails.
C16_Witness ==
    /\ op = "validate_referendum"
    /\ args.votes_for = 300000
    /\ args.votes_against = 200000
    /\ args.eligible_voters = 1000000
    /\ result.kind = "ReferendumError"

\* ------------------------------------------------------ chamber contract

\* A chamber vote action was called with a tally of the other chamber.
WrongChamberCalled == op \in ChamberVoteOps /\ args.vote.chamber # ExpectedChamber(op)

\* C18: a chamber vote action called with a tally of the wrong chamber fails
\* with the assertion failure whatever the tally's numbers are: it returns no
\* result and raises neither QuorumError nor MajorityError.
C18_WrongChamberFatal ==
    WrongChamberCalled =>
        /\ result = AssertionError
        /\ result # ReturnsTrue
        /\ result.kind \notin {"QuorumError", "MajorityError"}

\* A Senate tally below quorum handed to sejm_passes_bill: the failure is the
\* assertion, not QuorumError.
C18_Witness ==
    /\ op = "sejm_passes_bill"
    /\ args.vote.chamber = SENATE
    /\ ~QuorumFormula(args.vote)
    /\ result = AssertionError

\* A Sejm tally that would pass handed to senate_passes_bill.
C18_WouldPassReached ==
    /\ op = "senate_passes_bill"
    /\ args.vote.chamber = SEJM
    /\ QuorumFormula(args.vote)
    /\ args.vote.votes_for > args.vote.votes_against
    /\ result = AssertionError

\* C19: the statutory membership of a tally is its explicit
\* statutory_members when one is given and otherwise 460 for the Sejm and
\* 100 for the Senate; the quorum of a chamber vote is taken of that number.
C19_StatutoryMembership ==
    LET vote == args.vote
        expected ==
            IF vote.statutory_members = None
            THEN (IF vote.chamber = SEJM THEN 460 ELSE 100)
            ELSE vote.statutory_members[1]
    IN  /\ op = "members" => result.value = expected
        /\ ChamberVoteCalled =>
              (result.kind = "QuorumError" <=>
                 (vote.votes_for + vote.votes_against + vote.votes_abstain) * 2
                     < expected)

\* A Senate tally without explicit membership has 100 members.
C19_Witness ==
    /\ op = "members"
    /\ args.vote.chamber = SENATE
    /\ args.vote.statutory_members = None
    /\ result.value = 100

\* An explicit membership replaces the default of the chamber.
C19_ExplicitReached ==
    /\ op = "members"
    /\ args.vote.chamber = SEJM
    /\ args.vote.statutory_members # None
    /\ result.value # 460

\* ------------------------------------------------------- single violation

EvaluatorOps ==
    ChamberVoteOps \cup
    {"validate_rights_restriction", "validate_extradition",
     "check_sejm_eligibility", "check_senate_eligibility",
     "check_presidential_eligibility", "validate_referendum"}

ViolationKinds ==
    {"QuorumError", "MajorityError", "EligibilityError", "ReferendumError",
     "ExtraditionError", "RightsRestrictionError"}

\* The outcome is success or one violation that carries a non-empty
\* provision identifier.
SuccessOrOneViolation ==
    \/ result = ReturnsTrue
    \/ /\ result.kind \in ViolationKinds
       /\ "article" \in DOMAIN result
       /\ result.article # ""

\* C20, as stated: every evaluator, on every input, returns True or raises
\* one violation with a non-empty provision identifier.
C20_Original == op \in EvaluatorOps => SuccessOrOneViolation

\* C20: every evaluator returns True or raises one violation with a
\* non-empty provision identifier, except a chamber vote action given a
\* tally of the other chamber, which fails with the assertion failure.
C20_SuccessOrOneViolation ==
    /\ (op \in EvaluatorOps /\ ~WrongChamberCalled) => SuccessOrOneViolation
    /\ WrongChamberCalled => result = AssertionError /\ ~SuccessOrOneViolation

\* An extradition refused with its provision identifier.
C20_Witness ==
    /\ op = "validate_extradition"
    /\ result.kind = "ExtraditionError"
    /\ result.article # ""

\* A Senate tally handed to sejm_overrides_veto: neither success nor a
\* violation.
C20_WrongChamberReached ==
    /\ op = "sejm_overrides_veto"
    /\ args.vote.chamber = SENATE
    /\ ~SuccessOrOneViolation

\* ---------------------------------------------------------- check order

\* C29: validate_referendum reports the first failing check only:
\* eligible_voters <= 0 fails under "125" whatever the votes are; otherwise
\* a turnout not above half fails under "125(3)" even when
\* votes_for <= votes_against; a referendum fails as rejected under "125"
\* only with a binding turnout.
C29_ReferendumCheckOrder ==
    op = "validate_referendum" =>
        LET positive == args.eligible_voters > 0
            binding == (args.votes_for + args.votes_against) * 2 > args.eligible_voters
            rejected == args.votes_for <= args.votes_against
        IN  /\ ~positive =>
                /\ result.article = "125"
                /\ result.reasons = <<"Number of eligible voters must be positive.">>
            /\ (positive /\ ~binding) =>
                /\ result.article = "125(3)"
                /\ result.reasons = <<"Referendum not binding: turnout does not exceed 50%.">>
            /\ (positive /\ binding /\ rejected) =>
                /\ result.article = "125"
                /\ result.reasons = <<"Referendum rejected">>
            /\ (result # ReturnsTrue /\ result.reasons = <<"Referendum rejected">>) =>
                (positive /\ binding)

\* A referendum with a turnout below half and more votes against than for
\* fails as not binding.
C29_Witness ==
    /\ op = "validate_referendum"
    /\ args.eligible_voters > 0
    /\ (args.votes_for + args.votes_against) * 2 <= args.eligible_voters
    /\ args.votes_for < args.votes_against
    /\ result.article = "125(3)"

\* No eligible voters and votes that would otherwise carry.
C29_NotPositiveReached ==
    /\ op = "validate_referendum"
    /\ args.eligible_voters = 0
    /\ args.votes_for > args.votes_against
    /\ result.article = "125"

\* C30: a request with both political_nonviolent_offense and
\* violates_human_rights fails under "55(4)" with the political-offence
\* reason only.
C30_PoliticalBeforeHumanRights ==
    (/\ op = "validate_extradition"
     /\ args.request.political_nonviolent_offense
     /\ args.request.violates_human_rights) =>
        /\ result.kind = "ExtraditionError"
        /\ result.article = "55(4)"
        /\ result.reasons = <<"concerns a nonviolent political offence">>

C30_Witness ==
    /\ op = "validate_extradition"
    /\ args.request.political_nonviolent_offense
    /\ args.request.violates_human_rights
    /\ args.request.court_approved
    /\ result.reasons = <<"concerns a nonviolent political offence">>

\* --------------------------------------------------------- tally counts

HasNegativeCount(vote) ==
    vote.votes_for < 0 \/ vote.votes_against < 0 \/ vote.votes_abstain < 0

\* C25: a tally with a negative count never passes the quorum and majority
\* checks of a chamber vote action (no evaluator succeeds on a tally whose
\* counts are not all >= 0).
C25_NegativeCountNeverPasses ==
    (ChamberVoteCalled /\ HasNegativeCount(args.vote)) => result # ReturnsTrue

\* C28: on a Sejm tally whose total_present does not exceed the statutory
\* membership, if sejm_overrides_senate succeeds then sejm_passes_bill
\* succeeds on the same tally.
C28_AbsoluteImpliesSimple ==
    (/\ op = "sejm_overrides_senate"
     /\ args.vote.chamber = SEJM
     /\ args.vote.votes_for + args.vote.votes_against + args.vote.votes_abstain
            <= StatutoryMembership(args.vote)
     /\ result = ReturnsTrue) =>
        sejm_passes_bill(args.vote) = ReturnsTrue

\* The implication of C28 on the tallies whose counts are all >= 0.
C28_HoldsWithoutNegativeCounts ==
    (HasVote /\ ~HasNegativeCount(args.vote)) => C28_AbsoluteImpliesSimple

\* An absolute majority that is also a simple one, on a tally without
\* negative counts.
C28_BothPassReached ==
    /\ op = "sejm_overrides_senate"
    /\ ~HasNegativeCount(args.vote)
    /\ args.vote.votes_against > 0
    /\ result = ReturnsTrue
    /\ sejm_passes_bill(args.vote) = ReturnsTrue

\* ------------------------------------------------- procedure stage claims

ProcedureErrorKinds ==
    {"LegislativeProcessError", "AmendmentError", "GovernmentFormationError"}

\* The tally of a vote input meets the quorum and the simple majority.
PassesSimple(vote) ==
    /\ (vote.votes_for + vote.votes_against + vote.votes_abstain) * 2
           >= StatutoryMembership(vote)
    /\ vote.votes_for > vote.votes_against

\* C21: once a machine is in Enacted, Rejected, Adopted, Appointed or Failed
\* its stage and log never change again, and a transition attempted there
\* ends in the fatal contract failure, not in a procedure error.
C21_TerminalStagesAbsorb ==
    [][machine.stage \in {"ENACTED", "REJECTED", "ADOPTED", "APPOINTED", "FAILED"} =>
          /\ machine' = machine
          /\ result' = AssertionError
          /\ result'.kind \notin ProcedureErrorKinds]_vars

\* A transition was attempted on a machine in a terminal stage.
C21_Witness ==
    /\ op = "transition"
    /\ machine.stage \in {"ENACTED", "REJECTED", "ADOPTED", "APPOINTED", "FAILED"}
    /\ Len(machine.log) > 0
    /\ machine.log[Len(machine.log)][2] = machine.stage
    /\ result = AssertionError

GovernmentChain ==
    <<"PRESIDENT_DESIGNATES", "CONFIDENCE_VOTE", "SEJM_ELECTS",
      "PRESIDENT_APPOINTS_RETRY">>

\* The log of a government formation follows the chain: entry i leaves the
\* i-th stage of the chain for the next one (Failed after the last), or, from
\* a vote stage and as the last entry, for Appointed.
GovernmentLogFollowsChain ==
    LET log == machine.log
        after(i) == IF i < 4 THEN GovernmentChain[i + 1] ELSE "FAILED"
    IN  /\ Len(log) <= 4
        /\ \A i \in 1 .. Len(log) :
              /\ log[i][1] = GovernmentChain[i]
              /\ \/ log[i][2] = after(i)
                 \/ (i >= 2 /\ i = Len(log) /\ log[i][2] = "APPOINTED")
        /\ machine.stage = (IF Len(log) = 0 THEN GovernmentChain[1]
                            ELSE log[Len(log)][2])
        /\ Len(log) = 4 => machine.stage \in {"APPOINTED", "FAILED"}

\* A vote of the Sejm by simple majority, taken at one of the three vote
\* stages, appoints when it passes and otherwise moves to the next attempt.
GovernmentVoteStep ==
    (/\ machine.procedure = "government"
     /\ machine.stage \in {"CONFIDENCE_VOTE", "SEJM_ELECTS", "PRESIDENT_APPOINTS_RETRY"}
     /\ machine' # machine) =>
        /\ args'.kind = "vote"
        /\ args'.chamber = SEJM
        /\ args'.majority = SIMPLE
        /\ args'.vote.chamber = SEJM
        /\ machine'.stage =
              (IF PassesSimple(args'.vote) THEN "APPOINTED"
               ELSE IF machine.stage = "CONFIDENCE_VOTE" THEN "SEJM_ELECTS"
               ELSE IF machine.stage = "SEJM_ELECTS" THEN "PRESIDENT_APPOINTS_RETRY"
               ELSE "FAILED")

\* C22: government formation visits President designates, confidence vote,
\* Sejm elects, President appoints again only in this order and each at
\* most once; a passed simple-majority vote of the Sejm leads to Appointed,
\* a failed one to the next attempt and after the last to Failed; after the
\* last attempt the machine is in Appointed or Failed.
C22_GovernmentFormationChain ==
    /\ [](machine.procedure = "government" => GovernmentLogFollowsChain)
    /\ [][GovernmentVoteStep]_vars

\* Three failed votes: the machine is in Failed after the four transitions.
C22_Witness ==
    /\ machine.procedure = "government"
    /\ machine.stage = "FAILED"
    /\ Len(machine.log) = 4

\* Appointed at the second vote.
C22_AppointedReached ==
    /\ machine.procedure = "government"
    /\ machine.stage = "APPOINTED"
    /\ Len(machine.log) = 3

\* C23, as stated: the initial stage of every procedure stage machine is
\* Initiated.
C23_Original ==
    (machine # NoMachine /\ machine.log = <<>>) => machine.stage = "INITIATED"

\* C23: the initial stage of the bill machine (with its veto override) and
\* of the amendment machine is Initiated; government formation, whose stage
\* enumeration has no Initiated, starts at President designates.
C23_InitialStage ==
    (machine # NoMachine /\ machine.log = <<>>) =>
        /\ machine.procedure \in {"bill", "amendment"} => machine.stage = "INITIATED"
        /\ machine.procedure = "government" =>
              /\ machine.stage = "PRESIDENT_DESIGNATES"
              /\ "INITIATED" \notin GovernmentFormationStage

\* An amendment machine that has not advanced, after a refused request.
C23_Witness ==
    /\ machine.procedure = "amendment"
    /\ machine.log = <<>>
    /\ machine.stage = "INITIATED"
    /\ op = "transition"

\* The place of a bill stage along Initiated, SejmDeliberation, SejmPassed,
\* SenateDeliberation, Senate outcome, override vote, PresidentReview,
\* presidential outcome, veto override vote, its outcome, terminal stage.
BillRank(stage) ==
    CASE stage = "INITIATED" -> 1
      [] stage = "SEJM_DELIBERATION" -> 2
      [] stage = "SEJM_PASSED" -> 3
      [] stage = "SENATE_DELIBERATION" -> 4
      [] stage \in {"SENATE_PASSED", "SENATE_AMENDED", "SENATE_REJECTED"} -> 5
      [] stage = "SEJM_OVERRIDE_VOTE" -> 6
      [] stage = "PRESIDENT_REVIEW" -> 7
      [] stage \in {"VETOED", "REFERRED_TO_TRIBUNAL"} -> 8
      [] stage = "VETO_OVERRIDE_VOTE" -> 9
      [] stage \in {"SIGNED", "VETO_OVERRIDDEN", "PARTIALLY_UNCONSTITUTIONAL"} -> 10
      [] stage \in {"ENACTED", "REJECTED"} -> 11

\* Every logged transition of a bill goes forward along the chain, and the
\* override votes are entered only from a Senate resolution against the
\* bill and from a presidential veto.
BillLogOneDirectional ==
    LET log == machine.log
    IN  \A i \in 1 .. Len(log) :
            /\ BillRank(log[i][1]) < BillRank(log[i][2])
            /\ i > 1 => log[i][1] = log[i - 1][2]
            /\ log[i][2] = "SEJM_OVERRIDE_VOTE" =>
                  log[i][1] \in {"SENATE_REJECTED", "SENATE_AMENDED"}
            /\ log[i][2] = "VETO_OVERRIDE_VOTE" => log[i][1] = "VETOED"

\* The Sejm votes on a bill at its deliberation and at the two override
\* votes only; the override of the Senate is decided by the absolute
\* majority and the override of the veto by three fifths, each with quorum.
BillVoteStep ==
    LET vote == args'.vote
        quorum == (vote.votes_for + vote.votes_against + vote.votes_abstain) * 2
                      >= StatutoryMembership(vote)
        by(majority_type) ==
            /\ args'.kind = "vote"
            /\ args'.chamber = SEJM
            /\ args'.majority = majority_type
            /\ vote.chamber = SEJM
    IN  (machine.procedure = "bill" /\ machine' # machine) =>
            /\ args'.kind = "vote" =>
                  machine.stage \in {"SEJM_DELIBERATION", "SEJM_OVERRIDE_VOTE",
                                     "VETO_OVERRIDE_VOTE"}
            /\ machine.stage = "SEJM_OVERRIDE_VOTE" =>
                  /\ by(ABSOLUTE)
                  /\ (quorum /\ vote.votes_for * 2 > StatutoryMembership(vote)) =>
                        machine'.stage = "PRESIDENT_REVIEW"
                  /\ (/\ ~(quorum /\ vote.votes_for * 2 > StatutoryMembership(vote))
                      /\ machine.log[Len(machine.log)][1] = "SENATE_REJECTED") =>
                        machine'.stage = "REJECTED"
            /\ machine.stage = "VETO_OVERRIDE_VOTE" =>
                  /\ by(THREE_FIFTHS)
                  /\ machine'.stage =
                        (IF quorum /\ vote.votes_for * 5 >= StatutoryMembership(vote) * 3
                         THEN "VETO_OVERRIDDEN" ELSE "REJECTED")

\* C24: the transitions of the ordinary-bill machine go one way along
\* Initiated, SejmDeliberation, SejmPassed, SenateDeliberation, Senate
\* outcome, PresidentReview, presidential outcome, terminal stage; the Sejm
\* takes the bill up again only in the two override votes, after a Senate
\* resolution against it by absolute majority and after a presidential veto
\* by three fifths.
C24_BillOneDirectional ==
    /\ [](machine.procedure = "bill" => BillLogOneDirectional)
    /\ [][BillVoteStep]_vars

\* A bill enacted after both override votes.
C24_Witness ==
    /\ machine.procedure = "bill"
    /\ machine.stage = "ENACTED"
    /\ \E i, j \in 1 .. Len(machine.log) :
          /\ machine.log[i] = <<"SEJM_OVERRIDE_VOTE", "PRESIDENT_REVIEW">>
          /\ machine.log[j] = <<"VETO_OVERRIDE_VOTE", "VETO_OVERRIDDEN">>

\* A rejection of the Senate that the Sejm failed to override.
C24_SenateRejectionStandsReached ==
    /\ machine.procedure = "bill"
    /\ machine.stage = "REJECTED"
    /\ Len(machine.log) > 0
    /\ machine.log[Len(machine.log)] = <<"SEJM_OVERRIDE_VOTE", "REJECTED">>

\* C26: a requested transition that fails with LegislativeProcessError,
\* AmendmentError or GovernmentFormationError leaves the machine's current
\* stage and its transition log unchanged.
C26_FailedTransitionChangesNothing ==
    [][result'.kind \in ProcedureErrorKinds =>
          /\ machine'.stage = machine.stage
          /\ machine'.log = machine.log]_vars

\* A vote refused at the override stage of a bill: the machine has advanced
\* before and stays where it is.
C26_Witness ==
    /\ machine.procedure = "bill"
    /\ machine.stage = "SEJM_OVERRIDE_VOTE"
    /\ Len(machine.log) > 0
    /\ args.kind = "vote"
    /\ result.kind = "LegislativeProcessError"

====
